---- MODULE Spec2Model ----
(***************************************************************************)
(* Model of the snake crate (src/src/lib.rs): the Game state machine       *)
(* (create, get_new_head, place_food, tick) and InteractiveGame::play,     *)
(* whose ticker thread and input_handler thread share one Game behind a    *)
(* Mutex.                                                                  *)
(*                                                                         *)
(* A Coord is the pair <<x, y>>.  An Option is a tuple of at most one       *)
(* element: None is <<>>, Some(v) is <<v>>.                                *)
(***************************************************************************)
EXTENDS Integers, Sequences, FiniteSets, TLC

VARIABLES
    snake,          \* Game.snake: Vec<Coord>, head first
    food,           \* Game.food: Option<Coord>
    width,          \* Game.width
    height,         \* Game.height
    state,          \* Game.state
    cur_input,      \* Game.cur_input (the pending direction)
    new_head,       \* local new_head: Coord of the most recent tick() call, <<>> before the first
    term_updates,   \* Vec<TermUpdate> returned by the most recent tick() call
    ticks,          \* number of tick() calls made by the no-input driver
    terminal_ticks, \* number of tick() calls made on a game that was already DEAD or WON
    lock,           \* holder of the Mutex<Game>: "free", "ticker" or "input_handler"
    ticker,         \* position of the ticker thread
    input_handler,  \* position of the input_handler thread
    input,          \* local input: Option<Input> of the input_handler thread
    play,           \* position of play() itself (the spawning thread)
    written,        \* history: the value of the most recent completed write of cur_input
    create_call,    \* the call Game::create(height, width) and whether it panicked
    key             \* Option of the raw key most recently mapped to an Option<Input>

game == <<snake, food, width, height, state, cur_input>>
tick_locals == <<new_head, term_updates>>
threads == <<lock, ticker, input_handler, input, play>>
vars == <<snake, food, width, height, state, cur_input, new_head, term_updates,
          ticks, terminal_ticks, lock, ticker, input_handler, input, play, written,
          create_call, key>>

----------------------------------------------------------------------------
(* Bounds of the model *)

MaxCells == 9          \* boards of the Game specifications have at most this many cells
MaxPlayCells == 7      \* boards of the play() specifications have at most this many cells
MaxTerminalTicks == 2  \* tick() calls explored on a game that is already DEAD or WON
MaxTicks == 6          \* tick() calls explored by the no-input driver
MaxCreateDim == 4      \* Game::create is called with height and width up to this

\* the <<height, width>> pairs Game::create accepts with at most n cells
Boards(n) == {b \in (2..n) \X (2..n) : b[1] * b[2] <= n}

----------------------------------------------------------------------------
(* Value types *)

None == <<>>
Some(v) == <<v>>

\* the value given to the fields of a Game that was never constructed
NoGame == "NoGame"

Inputs == {"UP", "DOWN", "LEFT", "RIGHT"}

rev(i) ==
    CASE i = "DOWN" -> "UP"
      [] i = "UP" -> "DOWN"
      [] i = "LEFT" -> "RIGHT"
      [] i = "RIGHT" -> "LEFT"

offset_down_negative(i) ==
    CASE i = "DOWN" -> <<0, -1>>
      [] i = "UP" -> <<0, 1>>
      [] i = "LEFT" -> <<-1, 0>>
      [] i = "RIGHT" -> <<1, 0>>

offset(i) ==
    CASE i = "DOWN" -> <<0, 1>>
      [] i = "UP" -> <<0, -1>>
      [] i = "LEFT" -> <<-1, 0>>
      [] i = "RIGHT" -> <<1, 0>>

add(a, b) == <<a[1] + b[1], a[2] + b[2]>>

move_by(c, i) == add(c, offset(i))

TermUpdate(t, c) == [type_ |-> t, coord |-> c]

\* Input::from_key
from_key(s) ==
    CASE s = "w" -> Some("UP")
      [] s = "a" -> Some("LEFT")
      [] s = "s" -> Some("DOWN")
      [] s = "d" -> Some("RIGHT")
      [] OTHER -> None

----------------------------------------------------------------------------
(* Game *)

coord_is_in_bounds_inclusive(c) ==
    c[1] >= 0 /\ c[1] <= width /\ c[2] >= 0 /\ c[2] <= height

coord_is_in_bounds(c) ==
    c[1] >= 0 /\ c[1] < width /\ c[2] >= 0 /\ c[2] < height

get_head == snake[1]

get_new_head_no_guard ==
    move_by(get_head, cur_input)

get_new_head ==
    LET nh == move_by(get_head, cur_input) IN
    IF Len(snake) >= 2 /\ snake[2] = nh
    THEN move_by(snake[1], rev(cur_input))
    ELSE nh

\* snake[..snake.len() - 1].contains(&new_head)
body_contains_any(sn, c) ==
    \E k \in 1..Len(sn) : sn[k] = c

body_contains_never(sn, c) == FALSE

body_contains(sn, c) ==
    \E k \in 1..(Len(sn) - 1) : sn[k] = c

\* the set free_coords that place_food draws from, for snake sn
free_coords_ignore_head(sn) ==
    {c \in (0..(width - 1)) \X (0..(height - 1)) :
        \A k \in 2..Len(sn) : sn[k] # c}

free_coords(sn) ==
    {c \in (0..(width - 1)) \X (0..(height - 1)) :
        \A k \in 1..Len(sn) : sn[k] # c}

\* Some(food) if self.get_head() == food, for the head nh just inserted
got_food_never(nh) == FALSE

got_food(nh) == food # None /\ nh = food[1]

\* the values place_food can leave in self.food, for snake sn
place_food_gives_up_early(sn) ==
    IF Cardinality(free_coords(sn)) <= 1
    THEN {None}
    ELSE {Some(c) : c \in free_coords(sn)}

place_food_first_free(sn) ==
    IF Cardinality(free_coords(sn)) = 0
    THEN {None}
    ELSE {Some(CHOOSE c \in free_coords(sn) :
                 \A d \in free_coords(sn) :
                     c[2] < d[2] \/ (c[2] = d[2] /\ c[1] <= d[1]))}

place_food(sn) ==
    IF Cardinality(free_coords(sn)) = 0
    THEN {None}
    ELSE {Some(c) : c \in free_coords(sn)}

tick ==
    LET nh == get_new_head
        grown == <<nh>> \o snake
        head_update == <<TermUpdate("Snake", nh)>>
    IN
    /\ new_head' = nh
    /\ UNCHANGED <<width, height, cur_input>>
    /\ IF body_contains(snake, nh)
       THEN /\ state' = "DEAD"
            /\ term_updates' = <<>>
            /\ UNCHANGED <<snake, food>>
       ELSE IF ~coord_is_in_bounds(nh)
       THEN /\ snake' = grown
            /\ state' = "DEAD"
            /\ term_updates' = head_update
            /\ UNCHANGED food
       ELSE IF got_food(nh)
       THEN /\ snake' = grown
            /\ \E f \in place_food(grown) :
                 /\ food' = f
                 /\ IF f = None
                    THEN /\ state' = "WON"
                         /\ term_updates' = head_update
                    ELSE /\ term_updates' = Append(head_update, TermUpdate("Food", f[1]))
                         /\ UNCHANGED state
       ELSE /\ snake' = SubSeq(grown, 1, Len(grown) - 1)
            /\ term_updates' =
                 Append(head_update, TermUpdate("Clear", grown[Len(grown)]))
            /\ UNCHANGED <<food, state>>

\* the tiles that Display for Game prints inside the walls, for snake sn and
\* food fd: AIR, then SNAKE on every segment, then FOOD on the food
tiles(sn, fd) ==
    [c \in (0..(width - 1)) \X (0..(height - 1)) |->
        IF fd # None /\ fd[1] = c THEN "FOOD"
        ELSE IF \E k \in 1..Len(sn) : sn[k] = c THEN "SNAKE"
        ELSE "AIR"]

\* the tile TermUpdate::queue prints for an update of type t
tile_of(t) ==
    CASE t = "Clear" -> "AIR"
      [] t = "Snake" -> "SNAKE"
      [] t = "Food" -> "FOOD"

\* TermUpdate::queue: the board part of the screen after update u is printed
queue(u, screen) ==
    IF u.coord \in DOMAIN screen
    THEN [screen EXCEPT ![u.coord] = tile_of(u.type_)]
    ELSE screen

\* for term_update in &term_updates { term_update.queue(&mut stdout) }
RECURSIVE queue_all(_, _)
queue_all(updates, screen) ==
    IF updates = <<>>
    THEN screen
    ELSE queue_all(Tail(updates), queue(Head(updates), screen))

\* the outcomes of Game::create(h, w), as a predicate on the variables: a panic
\* that leaves no Game (its fields are given the values NoGame and 0), or a Game
create_accepts_one(h, w) ==
    /\ new_head = <<>>
    /\ term_updates = <<>>
    /\ IF h < 1 \/ w < 1
       THEN /\ create_call = [height |-> h, width |-> w, panicked |-> TRUE]
            /\ snake = <<>>
            /\ food = None
            /\ width = 0
            /\ height = 0
            /\ state = NoGame
            /\ cur_input = NoGame
            /\ written = NoGame
       ELSE /\ create_call = [height |-> h, width |-> w, panicked |-> FALSE]
            /\ snake = <<<<0, 0>>>>
            /\ width = w
            /\ height = h
            /\ state = "RUNNING"
            /\ cur_input = "DOWN"
            /\ food \in place_food(<<<<0, 0>>>>)
            /\ written = "DOWN"

create(h, w) ==
    /\ new_head = <<>>
    /\ term_updates = <<>>
    /\ IF h < 2 \/ w < 2
       THEN /\ create_call = [height |-> h, width |-> w, panicked |-> TRUE]
            /\ snake = <<>>
            /\ food = None
            /\ width = 0
            /\ height = 0
            /\ state = NoGame
            /\ cur_input = NoGame
            /\ written = NoGame
       ELSE /\ create_call = [height |-> h, width |-> w, panicked |-> FALSE]
            /\ snake = <<<<0, 0>>>>
            /\ width = w
            /\ height = h
            /\ state = "RUNNING"
            /\ cur_input = "DOWN"
            /\ food \in place_food(<<<<0, 0>>>>)
            /\ written = "DOWN"

----------------------------------------------------------------------------
(* A Game driven through its public interface: tick() and writes of the    *)
(* public field cur_input, in any order.                                   *)

InitGame ==
    /\ \E b \in Boards(MaxCells) : create(b[1], b[2])
    /\ key = None
    /\ ticks = 0
    /\ terminal_ticks = 0
    /\ lock = "free"
    /\ ticker = "unspawned"
    /\ input_handler = "unspawned"
    /\ input = None
    /\ play = "unspawned"

\* game.tick() on a RUNNING game
TickRunning ==
    /\ state = "RUNNING"
    /\ tick
    /\ UNCHANGED <<create_call, key, ticks, terminal_ticks, threads, written>>

\* game.tick() on a DEAD or WON game
TickTerminal ==
    /\ state # "RUNNING"
    /\ terminal_ticks < MaxTerminalTicks
    /\ tick
    /\ terminal_ticks' = terminal_ticks + 1
    /\ UNCHANGED <<create_call, key, ticks, threads, written>>

\* game.cur_input = i
SetInput ==
    \E i \in Inputs :
        /\ cur_input' = i
        /\ written' = i
        /\ UNCHANGED <<create_call, key, snake, food, width, height, state, tick_locals,
                       ticks, terminal_ticks, threads>>

NextGame == TickRunning \/ TickTerminal \/ SetInput

Spec == InitGame /\ [][NextGame]_vars

----------------------------------------------------------------------------
(* Game::create called with any dimensions, small ones included; a Game    *)
(* that was constructed is then ticked.                                    *)

InitCreate ==
    /\ \E h, w \in 0..MaxCreateDim : create(h, w)
    /\ key = None
    /\ ticks = 0
    /\ terminal_ticks = 0
    /\ lock = "free"
    /\ ticker = "unspawned"
    /\ input_handler = "unspawned"
    /\ input = None
    /\ play = "unspawned"

\* game.tick() on the RUNNING game that create returned
CreatedTick ==
    /\ ~create_call.panicked
    /\ TickRunning

NextCreate == CreatedTick

SpecCreate == InitCreate /\ [][NextCreate]_vars

----------------------------------------------------------------------------
(* A Game that is only ticked: no write of cur_input ever happens.         *)

NoInputTick ==
    /\ ticks < MaxTicks
    /\ tick
    /\ ticks' = ticks + 1
    /\ UNCHANGED <<create_call, key, terminal_ticks, threads, written>>

NextNoInput == NoInputTick

SpecNoInput == InitGame /\ [][NextNoInput]_vars

----------------------------------------------------------------------------
(* InteractiveGame::play: the ticker thread and the input_handler thread   *)
(* share the Game behind a Mutex; play() joins both.                       *)

\* what poll()/read() can deliver: key codes and one event that is no key
Events == {"Up", "Down", "Left", "Right",
           "w", "W", "a", "A", "s", "S", "d", "D",
           "x", "Esc", "Resize"}

\* the match on the event in the input_handler thread
key_match(e) ==
    CASE e \in {"Up", "w", "W"} -> Some("UP")
      [] e \in {"Left", "a", "A"} -> Some("LEFT")
      [] e \in {"Down", "s", "S"} -> Some("DOWN")
      [] e \in {"Right", "d", "D"} -> Some("RIGHT")
      [] OTHER -> None

InitPlay ==
    /\ \E b \in Boards(MaxPlayCells) : create(b[1], b[2])
    /\ key = None
    /\ ticks = 0
    /\ terminal_ticks = 0
    /\ lock = "free"
    /\ ticker = "lock_initial"
    /\ input_handler = "poll"
    /\ input = None
    /\ play = "join_ticker"

\* ticker_mut.lock() of the draw_initial statement
TickerLockInitial ==
    /\ ticker = "lock_initial"
    /\ lock = "free"
    /\ lock' = "ticker"
    /\ ticker' = "draw_initial"
    /\ UNCHANGED <<create_call, key, game, tick_locals, ticks, terminal_ticks, input_handler, input, play, written>>

\* draw_initial() under the temporary guard, dropped at the end of the statement
TickerDrawInitial ==
    /\ ticker = "draw_initial"
    /\ lock' = "free"
    /\ ticker' = "render"
    /\ UNCHANGED <<create_call, key, game, tick_locals, ticks, terminal_ticks, input_handler, input, play, written>>

\* queue every term_update and flush, without the lock
TickerRender ==
    /\ ticker = "render"
    /\ ticker' = "sleep"
    /\ UNCHANGED <<create_call, key, game, tick_locals, ticks, terminal_ticks, lock, input_handler, input, play, written>>

\* thread::sleep(tick_wait)
TickerSleep ==
    /\ ticker = "sleep"
    /\ ticker' = "lock"
    /\ UNCHANGED <<create_call, key, game, tick_locals, ticks, terminal_ticks, lock, input_handler, input, play, written>>

\* let mut game = ticker_mut.lock().unwrap()
TickerLock ==
    /\ ticker = "lock"
    /\ lock = "free"
    /\ lock' = "ticker"
    /\ ticker' = "tick"
    /\ UNCHANGED <<create_call, key, game, tick_locals, ticks, terminal_ticks, input_handler, input, play, written>>

\* term_updates = game.tick()
TickerTick ==
    /\ ticker = "tick"
    /\ tick
    /\ ticker' = "check"
    /\ UNCHANGED <<create_call, key, ticks, terminal_ticks, lock, input_handler, input, play, written>>

\* the ticker's test game.state != RUNNING
ticker_breaks_on_dead_only == state = "DEAD"

ticker_breaks_never == FALSE

ticker_breaks == state # "RUNNING"

\* the guard is dropped at the end of the block, the lock is free during render and sleep
TickerCheck_keeps_guard ==
    /\ ticker = "check"
    /\ IF ticker_breaks
       THEN ticker' = "done" /\ lock' = "free"
       ELSE ticker' = "render" /\ UNCHANGED lock
    /\ UNCHANGED <<create_call, key, game, tick_locals, ticks, terminal_ticks, input_handler, input, play, written>>

\* if game.state != RUNNING { break }, then the guard is dropped either way
TickerCheck ==
    /\ ticker = "check"
    /\ lock' = "free"
    /\ ticker' = IF ticker_breaks THEN "done" ELSE "render"
    /\ UNCHANGED <<create_call, key, game, tick_locals, ticks, terminal_ticks, input_handler, input, play, written>>

Ticker ==
    \/ TickerLockInitial
    \/ TickerDrawInitial
    \/ TickerRender
    \/ TickerSleep
    \/ TickerLock
    \/ TickerTick
    \/ TickerCheck

\* poll(tick_wait) returns true, read() returns event e, the match yields input
InputPollEvent ==
    /\ input_handler = "poll"
    /\ \E e \in Events :
         /\ input' = key_match(e)
         /\ input_handler' = IF key_match(e) # None THEN "lock_write" ELSE "poll"
    /\ UNCHANGED <<create_call, key, game, tick_locals, ticks, terminal_ticks, lock, ticker, play, written>>

\* poll(tick_wait) returns false
InputPollTimeout ==
    /\ input_handler = "poll"
    /\ input' = None
    /\ input_handler' = "lock_check"
    /\ UNCHANGED <<create_call, key, game, tick_locals, ticks, terminal_ticks, lock, ticker, play, written>>

\* let mut game = input_handler_mut.lock().unwrap()
InputLockWrite ==
    /\ input_handler = "lock_write"
    /\ lock = "free"
    /\ lock' = "input_handler"
    /\ input_handler' = "write"
    /\ UNCHANGED <<create_call, key, game, tick_locals, ticks, terminal_ticks, ticker, input, play, written>>

\* a write that drops a direction opposite to the stored one
InputWrite_filters_reverse ==
    /\ input_handler = "write"
    /\ cur_input' = IF input[1] = rev(cur_input) THEN cur_input ELSE input[1]
    /\ written' = input[1]
    /\ lock' = "free"
    /\ input_handler' = "poll"
    /\ UNCHANGED <<create_call, key, snake, food, width, height, state, tick_locals, ticks,
                   terminal_ticks, ticker, input, play>>

\* game.cur_input = i, then the guard is dropped
InputWrite ==
    /\ input_handler = "write"
    /\ cur_input' = input[1]
    /\ written' = input[1]
    /\ lock' = "free"
    /\ input_handler' = "poll"
    /\ UNCHANGED <<create_call, key, snake, food, width, height, state, tick_locals, ticks,
                   terminal_ticks, ticker, input, play>>

\* input_handler_mut.lock() of the else-if condition
InputLockCheck ==
    /\ input_handler = "lock_check"
    /\ lock = "free"
    /\ lock' = "input_handler"
    /\ input_handler' = "check"
    /\ UNCHANGED <<create_call, key, game, tick_locals, ticks, terminal_ticks, ticker, input, play, written>>

\* .state != GameState::RUNNING { break }; the temporary guard is dropped with the condition
InputCheck ==
    /\ input_handler = "check"
    /\ lock' = "free"
    /\ input_handler' = IF state # "RUNNING" THEN "done" ELSE "poll"
    /\ UNCHANGED <<create_call, key, game, tick_locals, ticks, terminal_ticks, ticker, input, play, written>>

InputHandler ==
    \/ InputPollEvent
    \/ InputPollTimeout
    \/ InputLockWrite
    \/ InputWrite
    \/ InputLockCheck
    \/ InputCheck

\* ticker.join().unwrap()
JoinTicker ==
    /\ play = "join_ticker"
    /\ ticker = "done"
    /\ play' = "join_input_handler"
    /\ UNCHANGED <<create_call, key, game, tick_locals, ticks, terminal_ticks, lock, ticker, input_handler, input, written>>

\* input_handler.join().unwrap(), then play() returns
JoinInputHandler ==
    /\ play = "join_input_handler"
    /\ input_handler = "done"
    /\ play' = "returned"
    /\ UNCHANGED <<create_call, key, game, tick_locals, ticks, terminal_ticks, lock, ticker, input_handler, input, written>>

Play == JoinTicker \/ JoinInputHandler

NextPlay == Ticker \/ InputHandler \/ Play

----------------------------------------------------------------------------
(* The two key mappings of the crate applied to a Game: Input::from_key on *)
(* a line read by get_input, and the key match of the input_handler on an  *)
(* event; a recognized key overwrites cur_input.                           *)

\* what get_input can hand to from_key: a line without its line end
Lines == {"w", "a", "s", "d", "W", "A", "S", "D", "x", "", "ws"}

\* if let Some(input) = get_input() { game.cur_input = input }
LineInput ==
    \E s \in Lines :
        /\ key' = Some([entry |-> "from_key", symbol |-> s])
        /\ cur_input' = IF from_key(s) = None THEN cur_input ELSE from_key(s)[1]
        /\ written' = cur_input'
        /\ UNCHANGED <<snake, food, width, height, state, tick_locals, ticks,
                       terminal_ticks, threads, create_call>>

\* read(), the match, and if let Some(i) = input { game.cur_input = i }
EventInput ==
    \E e \in Events :
        /\ key' = Some([entry |-> "key_match", symbol |-> e])
        /\ cur_input' = IF key_match(e) = None THEN cur_input ELSE key_match(e)[1]
        /\ written' = cur_input'
        /\ UNCHANGED <<snake, food, width, height, state, tick_locals, ticks,
                       terminal_ticks, threads, create_call>>

NextKeys == LineInput \/ EventInput

SpecKeys == InitGame /\ [][NextKeys]_vars

SpecPlay == InitPlay /\ [][NextPlay]_vars

\* both threads and the joining caller are scheduled fairly; which events the
\* input source delivers is not constrained
FairSpecPlay ==
    /\ SpecPlay
    /\ WF_vars(Ticker)
    /\ WF_vars(InputHandler)
    /\ WF_vars(Play)

----------------------------------------------------------------------------
(* Properties of the Game state machine (specification Spec)               *)

on_snake(c) == \E k \in 1..Len(snake) : snake[k] = c

no_duplicates(sn) == \A j, k \in 1..Len(sn) : sn[j] = sn[k] => j = k

\* C1: as long as tick() was only ever called on a RUNNING game (so also in the
\* state left by the tick that ends the game), the food coordinate, when
\* present, is not the coordinate of any snake segment.
C1_FoodNotOnSnake ==
    (terminal_ticks = 0 /\ food # None) => ~on_snake(food[1])

\* a RUNNING game whose last tick ate and had the food placed again
C1_Witness ==
    /\ state = "RUNNING"
    /\ terminal_ticks = 0
    /\ Len(snake) >= 3
    /\ Len(term_updates) = 2
    /\ term_updates[2] = TermUpdate("Food", food[1])

\* C2: whenever the state is RUNNING the snake is a non-empty sequence of
\* coordinates in which no coordinate appears twice.
C2_SnakeNonEmptyNoDuplicates ==
    state = "RUNNING" => (Len(snake) >= 1 /\ no_duplicates(snake))

\* a RUNNING game whose last tick moved the head onto the cell the tail vacated
C2_Witness ==
    /\ state = "RUNNING"
    /\ Len(snake) >= 4
    /\ Len(term_updates) = 2
    /\ term_updates[2] = TermUpdate("Clear", snake[1])

\* the pending direction is the exact opposite of the direction of travel
reversal_pressed ==
    Len(snake) >= 2 /\ move_by(snake[1], cur_input) = snake[2]

\* head + (head - segment 1)
straight_on == <<2 * snake[1][1] - snake[2][1], 2 * snake[1][2] - snake[2][2]>>

\* a step that is a tick() of a RUNNING game
running_tick_step == state = "RUNNING" /\ (snake' # snake \/ state' # state)

\* C3: when a RUNNING game with at least two segments is ticked while the
\* pending direction is the opposite of the direction of travel, the head the
\* tick computes is head + (head - segment 1) and not segment 1, and the tick
\* ends DEAD only if that cell is outside the board or on a segment behind
\* segment 1.
C3_ReversalGuard ==
    [][(running_tick_step /\ reversal_pressed) =>
          /\ new_head' = straight_on
          /\ new_head' # snake[2]
          /\ state' = "DEAD" =>
                \/ ~coord_is_in_bounds(straight_on)
                \/ \E k \in 3..(Len(snake) - 1) : snake[k] = straight_on]_vars

\* a RUNNING game just ticked straight on although the opposite direction is pending
C3_Witness ==
    /\ state = "RUNNING"
    /\ Len(snake) >= 3
    /\ new_head = snake[1]
    /\ reversal_pressed
    /\ written = cur_input

\* C4: once the state is DEAD or WON it never changes again, and a tick() on a
\* DEAD or WON game leaves snake, food and state unchanged.
C4_TerminalIsFinal ==
    [][state # "RUNNING" => UNCHANGED <<snake, food, state>>]_vars

----------------------------------------------------------------------------
(* Properties of a Game that is only ticked (specification SpecNoInput)    *)

\* C10: with no directional input, after k < height ticks the state is RUNNING
\* and the head is at (0, k); from the height-th tick on the state is DEAD.
C10_DownUntilWall ==
    /\ ticks < height => (state = "RUNNING" /\ snake[1] = <<0, ticks>>)
    /\ ticks >= height => state = "DEAD"

\* a game ticked again after the tick that ran it into the bottom wall
C10_Witness ==
    /\ ticks > height
    /\ state = "DEAD"
    /\ written = "DOWN"

----------------------------------------------------------------------------
(* Properties of InteractiveGame::play (specifications SpecPlay and        *)
(* FairSpecPlay)                                                           *)

\* C5: once the state of the shared game has left RUNNING, no field of the
\* Game is modified any more: snake, food, state, the dimensions and the
\* pending direction cur_input all stay as they are until play() returns.
C5_GameReadOnlyAfterEnd ==
    [][state # "RUNNING" => UNCHANGED game]_vars

\* C6: once the state is DEAD or WON, both loops eventually exit and play()
\* returns, whatever events the input source delivers; and play() returns
\* only after both loops have exited.
C6_CooperativeTermination ==
    /\ (state # "RUNNING") ~> (play = "returned")
    /\ [](play = "returned" => (ticker = "done" /\ input_handler = "done"))

\* a step of the ticker thread that executes game.tick()
ticker_tick_step == ticker = "tick" /\ ticker' = "check"

\* C7: snake, food and state change only in a tick() executed by the ticker
\* thread on a RUNNING game, so the tick that leaves the state DEAD or WON is
\* the last one, the input loop never changes snake, food or state, and the
\* ticker exits only with the state, final from then on, not RUNNING.
C7_LastTickIsFinal ==
    /\ [][(snake' # snake \/ food' # food \/ state' # state) =>
             (ticker_tick_step /\ state = "RUNNING"
                /\ input_handler' = input_handler)]_vars
    /\ [][ticker_tick_step => state = "RUNNING"]_vars
    /\ [](ticker = "done" => state # "RUNNING")

\* play() has returned from a game that was won
C7_Witness ==
    /\ play = "returned"
    /\ state = "WON"
    /\ Len(snake) = width * height

\* C8: the ticker holds the lock only from its lock() to the end of the block
\* with tick() (and for draw_initial), never while rendering or sleeping; the
\* input loop holds it only for its write or its state test, never while
\* polling; and while a loop is running, some loop can take a step.
C8_NoLockAcrossBlockingWait ==
    /\ lock = "ticker" <=> ticker \in {"draw_initial", "tick", "check"}
    /\ lock = "input_handler" <=> input_handler \in {"write", "check"}
    /\ (ticker # "done" \/ input_handler # "done") => ENABLED (Ticker \/ InputHandler)

\* the input loop writes the direction under the lock while the ticker sleeps
C8_Witness ==
    /\ ticker = "sleep"
    /\ input_handler = "write"
    /\ lock = "input_handler"
    /\ Len(snake) >= 2

\* get_new_head for pending direction i
new_head_for(i) ==
    LET nh == add(snake[1], offset(i)) IN
    IF Len(snake) >= 2 /\ snake[2] = nh
    THEN add(snake[1], offset(rev(i)))
    ELSE nh

one_cell_apart(a, b) ==
    \/ a[1] = b[1] /\ (a[2] = b[2] + 1 \/ a[2] = b[2] - 1)
    \/ a[2] = b[2] /\ (a[1] = b[1] + 1 \/ a[1] = b[1] - 1)

\* each tick uses the direction of the most recent completed write (DOWN if
\* there was none), and no write completes while the ticker holds the lock
reads_last_write ==
    /\ ticker_tick_step =>
          (cur_input = written /\ new_head' = new_head_for(written))
    /\ lock = "ticker" => written' = written

\* C9 as stated: each tick reads the most recently written direction and
\* moves the head by exactly one cell.
C9_EveryTickMovesHead ==
    [][/\ reads_last_write
       /\ ticker_tick_step => one_cell_apart(snake'[1], snake[1])]_vars

\* C9 as amended: each tick reads the most recently written direction and
\* computes a new head exactly one cell from the head; it moves the head
\* there unless that cell is a segment other than the tail, in which case
\* the snake is left as it was.
C9_TickReadsLastWrite ==
    [][/\ reads_last_write
       /\ ticker_tick_step =>
             /\ one_cell_apart(new_head', snake[1])
             /\ IF body_contains(snake, new_head')
                THEN snake' = snake
                ELSE snake'[1] = new_head']_vars

\* the ticker has just moved the head RIGHT, the direction written last,
\* while the next write is already waiting for the lock
C9_Witness ==
    /\ ticker = "check"
    /\ Len(snake) >= 2
    /\ written = "RIGHT"
    /\ snake[1] = add(snake[2], offset("RIGHT"))
    /\ input_handler = "lock_write"
    /\ input = Some("UP")

----------------------------------------------------------------------------
(* Further properties of the Game state machine (specification Spec)       *)

\* the cell is one of the width * height cells of the board
inside_board(c) ==
    c[1] \in 0..(width - 1) /\ c[2] \in 0..(height - 1)

\* the board cells on which snake sn has no segment
free_cells(sn) ==
    {c \in (0..(width - 1)) \X (0..(height - 1)) :
        ~\E k \in 1..Len(sn) : sn[k] = c}

\* the snake sn with the coordinate c put in front of it
with_head(c, sn) == <<c>> \o sn

\* a tick() of a RUNNING game whose new head is the food coordinate
eating_tick_step ==
    running_tick_step /\ food # None /\ new_head' = food[1]

\* C11: a tick of a RUNNING game whose new head lands on the food makes the
\* snake exactly one longer (also when it ends WON), a tick that stays RUNNING
\* without eating keeps the length, and no tick of a RUNNING game shortens
\* the snake.
C11_LengthUnderTick ==
    [][running_tick_step =>
          /\ eating_tick_step =>
                (Len(snake') = Len(snake) + 1 /\ snake'[1] = food[1])
          /\ (state' = "RUNNING" /\ ~eating_tick_step) =>
                Len(snake') = Len(snake)
          /\ Len(snake') >= Len(snake)]_vars

\* the 3x3 game with snake [(0,0)] and food (0,1) was ticked once: head (0,1),
\* length 2, food relocated to one of the 7 free cells
C11_Witness ==
    /\ width = 3 /\ height = 3
    /\ snake = <<<<0, 1>>, <<0, 0>>>>
    /\ new_head = <<0, 1>>
    /\ food # None
    /\ food[1] \in free_cells(snake)
    /\ Cardinality(free_cells(snake)) = 7
    /\ term_updates = <<TermUpdate("Snake", <<0, 1>>), TermUpdate("Food", food[1])>>

C13_BoundsDeath ==
    /\ [][(running_tick_step /\ ~inside_board(new_head')) =>
             (state' = "DEAD" /\ snake' = with_head(new_head', snake))]_vars
    /\ [](state = "RUNNING" => \A k \in 1..Len(snake) : inside_board(snake[k]))

\* a snake of three segments has just run into the right wall
C13_Witness ==
    /\ state = "DEAD"
    /\ terminal_ticks = 0
    /\ Len(snake) = 4
    /\ snake[1] = <<width, snake[2][2]>>
    /\ new_head = snake[1]

\* C16: when the head computed by a tick of a RUNNING game is a segment other
\* than the tail, the tick sets the state DEAD, leaves snake and food as they
\* were and returns no cell update.
C16_SelfCollision ==
    [][(running_tick_step /\ \E k \in 1..(Len(snake) - 1) : snake[k] = new_head') =>
          /\ state' = "DEAD"
          /\ snake' = snake
          /\ food' = food
          /\ term_updates' = <<>>]_vars

\* a game has just died of its head turning into its own body
C16_Witness ==
    /\ state = "DEAD"
    /\ terminal_ticks = 0
    /\ term_updates = <<>>
    /\ Len(snake) >= 5
    /\ \E k \in 2..(Len(snake) - 1) : snake[k] = new_head

\* C17: when the head computed by a tick of a RUNNING game with at least
\* three segments is the tail and no other segment, the state stays RUNNING
\* and the snake becomes that head followed by all old segments but the
\* tail: same length, no coordinate twice.
C17_HeadOntoVacatingTail ==
    [][(/\ running_tick_step
        /\ Len(snake) >= 3
        /\ new_head' = snake[Len(snake)]
        /\ ~\E k \in 1..(Len(snake) - 1) : snake[k] = new_head') =>
          /\ state' = "RUNNING"
          /\ Len(snake') = Len(snake)
          /\ snake' = with_head(new_head', SubSeq(snake, 1, Len(snake) - 1))
          /\ no_duplicates(snake')]_vars

\* a snake of exactly four segments has just closed its square: the head is
\* on the cell the tail left
C17_Witness ==
    /\ state = "RUNNING"
    /\ terminal_ticks = 0
    /\ Len(snake) = 4
    /\ new_head = snake[1]
    /\ term_updates = <<TermUpdate("Snake", new_head), TermUpdate("Clear", new_head)>>

\* C18: the food an eating tick leaves is drawn from exactly the board cells
\* free of the snake (new head included), every one of these cells is a
\* possible outcome, and the food is absent exactly when there is no such
\* cell; placing the food changes neither the snake beyond the inserted head
\* nor state, dimensions or pending direction.
C18_FoodPlacement ==
    /\ [][eating_tick_step =>
             LET free == free_cells(with_head(new_head', snake)) IN
             /\ food' = None <=> free = {}
             /\ food' # None => food'[1] \in free
             /\ food' # None => state' = state
             /\ snake' = with_head(new_head', snake)
             /\ UNCHANGED <<width, height, cur_input>>]_vars
    /\ []((state = "RUNNING" /\ got_food(get_new_head)) =>
             \A c \in free_cells(with_head(get_new_head, snake)) :
                 ENABLED (TickRunning /\ food' = Some(c)))

\* on the 3x3 board the first food eaten was placed again in the far corner
C18_Witness ==
    /\ state = "RUNNING"
    /\ width = 3 /\ height = 3
    /\ Len(snake) = 2
    /\ snake[1] = new_head
    /\ food = Some(<<2, 2>>)
    /\ term_updates[2] = TermUpdate("Food", <<2, 2>>)

----------------------------------------------------------------------------
(* Properties of Game::create (specification SpecCreate)                   *)

\* C14: create(height, width) with height >= 2 and width >= 2 yields a game
\* that is RUNNING with pending direction DOWN, the single segment (0,0) and
\* one food inside the board that is not (0,0); with height < 2 or width < 2
\* it panics and yields no Game.
C14_Construction ==
    new_head = <<>> =>
        IF create_call.height >= 2 /\ create_call.width >= 2
        THEN /\ ~create_call.panicked
             /\ height = create_call.height
             /\ width = create_call.width
             /\ state = "RUNNING"
             /\ cur_input = "DOWN"
             /\ snake = <<<<0, 0>>>>
             /\ food # None
             /\ food[1] \in ((0..(width - 1)) \X (0..(height - 1))) \ {<<0, 0>>}
        ELSE /\ create_call.panicked
             /\ snake = <<>>
             /\ food = None
             /\ state = NoGame

\* create(1, 3) has panicked
C14_Witness ==
    /\ create_call = [height |-> 1, width |-> 3, panicked |-> TRUE]
    /\ state = NoGame

----------------------------------------------------------------------------
(* Properties of the key mappings (specification SpecKeys)                 *)

\* the direction of a letter key, whatever its case
letter_direction(k) ==
    CASE k \in {"w", "W"} -> "UP"
      [] k \in {"a", "A"} -> "LEFT"
      [] k \in {"s", "S"} -> "DOWN"
      [] k \in {"d", "D"} -> "RIGHT"

letter_keys == {"w", "W", "a", "A", "s", "S", "d", "D"}

arrow_keys == {"Up", "Down", "Left", "Right"}

\* C15: through either mapping, from_key or the key match of the input loop,
\* a letter key w/a/s/d of either case sets the pending direction to
\* UP/LEFT/DOWN/RIGHT, and a key that is neither such a letter nor an arrow
\* leaves the pending direction as it was.
C15_KeyMapping ==
    [][key' # None =>
          LET k == key'[1].symbol IN
          /\ k \in letter_keys => cur_input' = letter_direction(k)
          /\ k \notin (letter_keys \cup arrow_keys) => cur_input' = cur_input]_vars

----------------------------------------------------------------------------
(* Properties of the cell updates returned by tick()                       *)

\* C19: for every tick() of a RUNNING game that leaves it RUNNING, printing
\* the returned cell updates in their order over the tiles of the game
\* before the tick gives the tiles of the game after the tick.
C19_UpdatesAgreeWithTiles ==
    [][(running_tick_step /\ state' = "RUNNING") =>
          queue_all(term_updates', tiles(snake, food)) = tiles(snake', food')]_vars

----------------------------------------------------------------------------
(* Properties of what the ticker thread draws (specification SpecPlay)     *)

\* C20: every cell update the ticker is about to queue, and the snake and
\* food coordinates draw_initial draws, lie inside the board; once the state
\* is not RUNNING the ticker never gets back to queueing, so the updates of
\* the tick that ended the game are not queued.
C20_OnlyBoardCellsRendered ==
    /\ ticker = "render" =>
          \A k \in 1..Len(term_updates) : inside_board(term_updates[k].coord)
    /\ ticker = "draw_initial" =>
          /\ \A k \in 1..Len(snake) : inside_board(snake[k])
          /\ food # None => inside_board(food[1])
    /\ state # "RUNNING" => ticker \in {"check", "done"}

\* the ticker has exited holding the update of a head outside the board
C20_Witness ==
    /\ ticker = "done"
    /\ state = "DEAD"
    /\ Len(term_updates) = 1
    /\ term_updates[1].type_ = "Snake"
    /\ ~inside_board(term_updates[1].coord)

====
